---- MODULE Spec2Model ----
(***************************************************************************)
(* Orders microservice: OrdersService (src/src/orders/orders.service.ts).  *)
(* The Order table of the store, the handlers of the service split at      *)
(* their awaits (store calls and remote request/reply calls), and the      *)
(* remote collaborators as nondeterministic replies.                       *)
(***************************************************************************)
EXTENDS Integers, Sequences, FiniteSets, TLC

VARIABLES
    orders,   \* the Order table, in creation order; an order's id is its index
    writes,   \* number of store writes committed so far
    pc,       \* pc[p]: where handler invocation p stands
    op,       \* op[p]: the handler p runs
    arg,      \* arg[p]: the handler's argument (its DTO)
    loc,      \* loc[p]: the handler's local constants
    sent,     \* sent[p]: remote requests issued by the invocation
    res       \* res[p]: what the invocation returned or threw

vars == <<orders, writes, pc, op, arg, loc, sent, res>>

----------------------------------------------------------------------------
(* Bounds of the model *)

MaxWrites == 3   \* store writes committed in one behaviour
MaxItems == 2    \* items of a CreateOrderDto
MaxQty == 2      \* quantity of an item
MaxPrice == 2    \* prices, of the validator and of the client
MaxTime == 1     \* values of new Date()
MaxRows == 3     \* orders in the store when the listing is checked
MaxPage == 3     \* page of an OrderPaginationDto
MaxLimit == 2    \* limit of an OrderPaginationDto

Procs == {"p1", "p2"}
ProductIds == {"A", "B"}
\* OrderStatus: the initial status, the paid one, and one of the others
Statuses == {"PENDING", "PAID", "CANCELLED"}
Undefined == "undefined"

----------------------------------------------------------------------------
(* Helpers of the JavaScript the handlers use *)

RECURSIVE Find(_, _)
\* products.find(product => product.id === id): the first match, or undefined
Find(products, id) ==
    IF products = <<>> THEN [id |-> Undefined]
    ELSE IF Head(products).id = id THEN Head(products)
    ELSE Find(Tail(products), id)

Found(products, id) == Find(products, id).id # Undefined

\* Math.ceil(a / b) for a >= 0, b >= 1
Ceil(a, b) == (a + b - 1) \div b

RECURSIVE SumSeq(_)
SumSeq(s) == IF s = <<>> THEN 0 ELSE Head(s) + SumSeq(Tail(s))

RECURSIVE SeqOfSet(_)
SeqOfSet(S) ==
    IF S = {} THEN <<>>
    ELSE LET x == CHOOSE y \in S : TRUE IN <<x>> \o SeqOfSet(S \ {x})

ProductName(id) == "name_" \o id

----------------------------------------------------------------------------
(* create *)

\* createOrderDto.items.map(item => item.productId)
CreateProductIds(dto) == [i \in 1..Len(dto.items) |-> dto.items[i].productId]

\* every lookup of create finds its product (otherwise product.price throws)
CreateResolves(dto, products) ==
    \A i \in 1..Len(dto.items) : Found(products, dto.items[i].productId)

\* the total at the prices the client sent
TotalAmountClientPrice(dto, products) ==
    SumSeq([i \in 1..Len(dto.items) |-> dto.items[i].price * dto.items[i].quantity])

TotalAmount(dto, products) ==
    SumSeq([i \in 1..Len(dto.items) |->
              Find(products, dto.items[i].productId).price * dto.items[i].quantity])

TotalItems(dto) == SumSeq([i \in 1..Len(dto.items) |-> dto.items[i].quantity])

OrderItemData(dto, products) ==
    [i \in 1..Len(dto.items) |->
        [price     |-> Find(products, dto.items[i].productId).price,
         productId |-> dto.items[i].productId,
         quantity  |-> dto.items[i].quantity]]

\* the row this.order.create inserts, with the schema's defaults
NewOrder(id, dto, products) ==
    [id             |-> id,
     totalAmount    |-> TotalAmount(dto, products),
     totalItems     |-> TotalItems(dto),
     status         |-> "PENDING",
     paid           |-> FALSE,
     paidAt         |-> 0,
     stripeChargeId |-> "",
     OrderItem      |-> OrderItemData(dto, products),
     OrderReceipt   |-> <<>>]

\* order.OrderItem.map(orderItem => ({...orderItem, name: products.find(...).name}))
Decorate(order, products) ==
    [order EXCEPT !.OrderItem =
        [i \in 1..Len(order.OrderItem) |->
            [price     |-> order.OrderItem[i].price,
             productId |-> order.OrderItem[i].productId,
             quantity  |-> order.OrderItem[i].quantity,
             name      |-> Find(products, order.OrderItem[i].productId).name]]]

----------------------------------------------------------------------------
(* Values of the model *)

Nothing == [none |-> TRUE]

Ok(v) == [ok |-> TRUE, value |-> v]

Threw(e) == [ok |-> FALSE, error |-> e]

\* an error of a collaborator, or of the JavaScript runtime
Failure(kind) == [kind |-> kind]

\* new RpcException(error)
RpcException(cause) == [kind |-> "RpcException", cause |-> cause]

\* new RpcException({ status: HttpStatus.NOT_FOUND, message: `Order with id [${id}] not found` })
NotFound(id) == [kind |-> "RpcException", status |-> 404, id |-> id]

Range(s) == {s[i] : i \in 1..Len(s)}

\* the reply of validate_products: one record per distinct requested id the
\* validator knows, at the validator's current price
ValidatorReply(ids, known, priceOf) ==
    SeqOfSet({[id |-> x, price |-> priceOf[x], name |-> ProductName(x)] :
                 x \in Range(ids) \cap known})

Prices == 1..MaxPrice

\* the validator's catalog: every assignment of prices within the bound
PriceTables == [ProductIds -> Prices]

OrderItemDtos == [productId : ProductIds, quantity : 1..MaxQty, price : Prices]

SeqsUpTo(S, n) == UNION {[1..k -> S] : k \in 1..n}

\* every CreateOrderDto within the bounds
CreateOrderDtos == {[items |-> its] : its \in SeqsUpTo(OrderItemDtos, MaxItems)}

Exists(id) == id \in 1..Len(orders)

\* an id of every order of the store, and one no order has
OrderIds == 1..(Len(orders) + 1)

----------------------------------------------------------------------------
(* Handlers: create *)

\* lines 28-36: the call, and the validate_products request
CreateStart(p, dto) ==
    /\ pc[p] = "idle"
    /\ pc' = [pc EXCEPT ![p] = "create_validate"]
    /\ op' = [op EXCEPT ![p] = "create"]
    /\ arg' = [arg EXCEPT ![p] = dto]
    /\ loc' = [loc EXCEPT ![p] = [productIds |-> CreateProductIds(dto)]]
    /\ sent' = [sent EXCEPT ![p] = 1]
    /\ res' = [res EXCEPT ![p] = Nothing]
    /\ UNCHANGED <<orders, writes>>

\* a handler ends: what it returned or threw
Finish(p, r) ==
    /\ pc' = [pc EXCEPT ![p] = "done"]
    /\ res' = [res EXCEPT ![p] = r]

\* the order row inserted before its items are priced
CreateValidatedRowFirst(p, priceTables) ==
    /\ pc[p] = "create_validate"
    /\ \/ /\ Finish(p, Threw(RpcException(Failure("RemoteError"))))
          /\ UNCHANGED <<loc, orders, writes>>
       \/ \E known \in SUBSET ProductIds, priceOf \in priceTables :
            LET products == ValidatorReply(loc[p].productIds, known, priceOf) IN
            IF CreateResolves(arg[p], products)
            THEN /\ pc' = [pc EXCEPT ![p] = "create_write"]
                 /\ loc' = [loc EXCEPT ![p] = [products |-> products]]
                 /\ UNCHANGED <<res, orders, writes>>
            ELSE /\ Finish(p, Threw(RpcException(Failure("TypeError"))))
                 /\ loc' = [loc EXCEPT ![p] = [products |-> products]]
                 /\ orders' = Append(orders,
                        NewOrder(Len(orders) + 1, [items |-> <<>>], products))
                 /\ writes' = writes + 1
    /\ UNCHANGED <<op, arg, sent>>

\* the request sent once more when it fails
CreateValidatedRetries(p, priceTables) ==
    /\ pc[p] = "create_validate"
    /\ \/ /\ IF sent[p] < 2
             THEN sent' = [sent EXCEPT ![p] = @ + 1] /\ UNCHANGED <<pc, res>>
             ELSE Finish(p, Threw(RpcException(Failure("RemoteError")))) /\ UNCHANGED sent
          /\ UNCHANGED loc
       \/ /\ \E known \in SUBSET ProductIds, priceOf \in priceTables :
               LET products == ValidatorReply(loc[p].productIds, known, priceOf) IN
               IF CreateResolves(arg[p], products)
               THEN /\ pc' = [pc EXCEPT ![p] = "create_write"]
                    /\ loc' = [loc EXCEPT ![p] = [products |-> products]]
                    /\ UNCHANGED res
               ELSE /\ Finish(p, Threw(RpcException(Failure("TypeError"))))
                    /\ loc' = [loc EXCEPT ![p] = [products |-> products]]
          /\ UNCHANGED sent
    /\ UNCHANGED <<orders, writes, op, arg>>

\* lines 34-47, 82-84: the reply of the validator, and the totals
CreateValidated(p, priceTables) ==
    /\ pc[p] = "create_validate"
    /\ \/ \* the request fails
          /\ Finish(p, Threw(RpcException(Failure("RemoteError"))))
          /\ UNCHANGED loc
       \/ \E known \in SUBSET ProductIds, priceOf \in priceTables :
            LET products == ValidatorReply(loc[p].productIds, known, priceOf) IN
            IF CreateResolves(arg[p], products)
            THEN /\ pc' = [pc EXCEPT ![p] = "create_write"]
                 /\ loc' = [loc EXCEPT ![p] = [products |-> products]]
                 /\ UNCHANGED res
            ELSE \* product.price of undefined: a TypeError, caught at line 82
                 /\ Finish(p, Threw(RpcException(Failure("TypeError"))))
                 /\ loc' = [loc EXCEPT ![p] = [products |-> products]]
    /\ UNCHANGED <<orders, writes, op, arg, sent>>

\* a failed this.order.create leaves the order row without its items
CreateWriteKeepsRow(p) ==
    /\ pc[p] = "create_write"
    /\ \/ /\ writes < MaxWrites
          /\ LET order == NewOrder(Len(orders) + 1, arg[p], loc[p].products) IN
               /\ orders' = Append(orders, order)
               /\ Finish(p, Ok(Decorate(order, loc[p].products)))
          /\ writes' = writes + 1
       \/ /\ writes < MaxWrites
          /\ Finish(p, Threw(RpcException(Failure("PrismaError"))))
          /\ orders' = Append(orders,
                 NewOrder(Len(orders) + 1, [items |-> <<>>], loc[p].products))
          /\ writes' = writes + 1
    /\ UNCHANGED <<op, arg, loc, sent>>

\* lines 50-81: this.order.create commits the order and its items, or fails
CreateWrite(p) ==
    /\ pc[p] = "create_write"
    /\ \/ /\ writes < MaxWrites
          /\ LET order == NewOrder(Len(orders) + 1, arg[p], loc[p].products) IN
               /\ orders' = Append(orders, order)
               /\ Finish(p, Ok(Decorate(order, loc[p].products)))
          /\ writes' = writes + 1
       \/ /\ Finish(p, Threw(RpcException(Failure("PrismaError"))))
          /\ UNCHANGED <<orders, writes>>
    /\ UNCHANGED <<op, arg, loc, sent>>

----------------------------------------------------------------------------
(* Store queries *)

\* where: { status }: an undefined status filters nothing
Matches(order, status) == status = Undefined \/ order.status = status

RECURSIVE Where(_, _)
Where(rows, status) ==
    IF rows = <<>> THEN <<>>
    ELSE IF Matches(Head(rows), status)
         THEN <<Head(rows)>> \o Where(Tail(rows), status)
         ELSE Where(Tail(rows), status)

\* a row as a query without include returns it: the scalar fields
Scalars(order) ==
    [id             |-> order.id,
     totalAmount    |-> order.totalAmount,
     totalItems     |-> order.totalItems,
     status         |-> order.status,
     paid           |-> order.paid,
     paidAt         |-> order.paidAt,
     stripeChargeId |-> order.stripeChargeId]

\* this.order.count({ where: { status } })
Count(status) == Len(Where(orders, status))

Min(a, b) == IF a <= b THEN a ELSE b

\* this.order.findMany({ take, skip, where: { status } })
FindMany(take, skip, status) ==
    LET rows == Where(orders, status) IN
    [i \in 1..(Min(skip + take, Len(rows)) - Min(skip, Len(rows))) |->
        Scalars(rows[skip + i])]

\* this.order.findFirst({ where: { id }, include: { OrderItem: { select: ... } } })
FindFirst(id) ==
    [id             |-> orders[id].id,
     totalAmount    |-> orders[id].totalAmount,
     totalItems     |-> orders[id].totalItems,
     status         |-> orders[id].status,
     paid           |-> orders[id].paid,
     paidAt         |-> orders[id].paidAt,
     stripeChargeId |-> orders[id].stripeChargeId,
     OrderItem      |-> orders[id].OrderItem]

----------------------------------------------------------------------------
(* Handlers: findAll *)

OrderPaginationDtos ==
    [page : 1..MaxPage, limit : 1..MaxLimit, status : Statuses \cup {Undefined}]

\* lines 88-96: the count of the matching rows
FindAllCount(p, dto) ==
    /\ pc[p] = "idle"
    /\ pc' = [pc EXCEPT ![p] = "findAll_fetch"]
    /\ op' = [op EXCEPT ![p] = "findAll"]
    /\ arg' = [arg EXCEPT ![p] = dto]
    /\ loc' = [loc EXCEPT ![p] = [totalPages |-> Count(dto.status)]]
    /\ sent' = [sent EXCEPT ![p] = 0]
    /\ res' = [res EXCEPT ![p] = Nothing]
    /\ UNCHANGED <<orders, writes>>

\* lines 106-113: the object findAll returns
FindAllResult(dto, totalPages, rows) ==
    [data |-> rows,
     meta |-> [page       |-> dto.page,
               totalPages |-> totalPages,
               lastPage   |-> Ceil(totalPages, dto.limit)]]

FindAllSkipNextPage(dto) == dto.page * dto.limit

\* line 100: skip: (page - 1) * limit
FindAllSkip(dto) == (dto.page - 1) * dto.limit

\* lines 96-113: the page of rows, and the result
FindAllFetch(p) ==
    /\ pc[p] = "findAll_fetch"
    /\ Finish(p, Ok(FindAllResult(arg[p], loc[p].totalPages,
                       FindMany(arg[p].limit, FindAllSkip(arg[p]), arg[p].status))))
    /\ UNCHANGED <<orders, writes, op, arg, loc, sent>>

----------------------------------------------------------------------------
(* Handlers: findOne and changeStatus *)

\* the row is not checked: without one the request goes out all the same,
\* and null is returned
FindOneReadNull(p, id) ==
    IF Exists(id)
    THEN /\ pc' = [pc EXCEPT ![p] = "findOne_validate"]
         /\ loc' = [loc EXCEPT ![p] = [order |-> FindFirst(id)]]
         /\ sent' = [sent EXCEPT ![p] = 1]
         /\ res' = [res EXCEPT ![p] = Nothing]
    ELSE /\ Finish(p, Ok(Nothing))
         /\ loc' = [loc EXCEPT ![p] = Nothing]
         /\ sent' = [sent EXCEPT ![p] = 1]

\* lines 116-142: the row with its items, NOT_FOUND without a row, and
\* otherwise the validate_products request
FindOneRead(p, id) ==
    IF Exists(id)
    THEN /\ pc' = [pc EXCEPT ![p] = "findOne_validate"]
         /\ loc' = [loc EXCEPT ![p] = [order |-> FindFirst(id)]]
         /\ sent' = [sent EXCEPT ![p] = 1]
         /\ res' = [res EXCEPT ![p] = Nothing]
    ELSE /\ Finish(p, Threw(NotFound(id)))
         /\ loc' = [loc EXCEPT ![p] = Nothing]
         /\ sent' = [sent EXCEPT ![p] = 0]

FindOneStart(p, id) ==
    /\ pc[p] = "idle"
    /\ op' = [op EXCEPT ![p] = "findOne"]
    /\ arg' = [arg EXCEPT ![p] = [id |-> id]]
    /\ FindOneRead(p, id)
    /\ UNCHANGED <<orders, writes>>

\* line 138
FindOneProductIds(order) ==
    [i \in 1..Len(order.OrderItem) |-> order.OrderItem[i].productId]

\* every lookup of line 148 finds its product (otherwise .name throws)
FindOneResolves(order, products) ==
    \A i \in 1..Len(order.OrderItem) : Found(products, order.OrderItem[i].productId)

\* an order with a product missing from the reply returned as it was read
FindOneOutcomeLenient(order, products) ==
    IF FindOneResolves(order, products)
    THEN Ok(Decorate(order, products))
    ELSE Ok(order)

\* lines 140-150: what findOne returns or throws on the validator's reply
FindOneOutcome(order, products) ==
    IF FindOneResolves(order, products)
    THEN Ok(Decorate(order, products))
    ELSE Threw(Failure("TypeError"))

\* lines 140-150: the reply of the validator ends findOne
FindOneValidated(p, priceTables) ==
    /\ pc[p] = "findOne_validate"
    /\ op[p] = "findOne"
    /\ \/ Finish(p, Threw(Failure("RemoteError")))
       \/ \E known \in SUBSET ProductIds, priceOf \in priceTables :
            Finish(p, FindOneOutcome(loc[p].order,
                         ValidatorReply(FindOneProductIds(loc[p].order), known, priceOf)))
    /\ UNCHANGED <<orders, writes, op, arg, loc, sent>>

ChangeOrderStatusDtos == [id : OrderIds, status : Statuses]

\* changeStatus waits while another call is looking the same order up
ChangeStatusStartLocked(p, dto) ==
    /\ pc[p] = "idle"
    /\ \A r \in Procs \ {p} : ~(pc[r] = "findOne_validate" /\ arg[r].id = dto.id)
    /\ op' = [op EXCEPT ![p] = "changeStatus"]
    /\ arg' = [arg EXCEPT ![p] = dto]
    /\ FindOneRead(p, dto.id)
    /\ UNCHANGED <<orders, writes>>

\* lines 153-156: changeStatus calls findOne
ChangeStatusStart(p, dto) ==
    /\ pc[p] = "idle"
    /\ op' = [op EXCEPT ![p] = "changeStatus"]
    /\ arg' = [arg EXCEPT ![p] = dto]
    /\ FindOneRead(p, dto.id)
    /\ UNCHANGED <<orders, writes>>

\* the update issued whatever the status looked up
ChangeStatusAlwaysUpdates(p, priceTables) ==
    /\ pc[p] = "findOne_validate"
    /\ op[p] = "changeStatus"
    /\ \/ /\ Finish(p, Threw(Failure("RemoteError")))
          /\ UNCHANGED loc
       \/ \E known \in SUBSET ProductIds, priceOf \in priceTables :
            LET order == FindOneOutcome(loc[p].order,
                            ValidatorReply(FindOneProductIds(loc[p].order), known, priceOf))
            IN  IF ~order.ok
                THEN Finish(p, order) /\ UNCHANGED loc
                ELSE /\ pc' = [pc EXCEPT ![p] = "changeStatus_update"]
                     /\ loc' = [loc EXCEPT ![p] = [order |-> order.value]]
                     /\ UNCHANGED res
    /\ UNCHANGED <<orders, writes, op, arg, sent>>

\* lines 156-165: findOne returns or throws; the same status is returned as
\* looked up, another one goes to the store
ChangeStatusLookedUp(p, priceTables) ==
    /\ pc[p] = "findOne_validate"
    /\ op[p] = "changeStatus"
    /\ \/ /\ Finish(p, Threw(Failure("RemoteError")))
          /\ UNCHANGED loc
       \/ \E known \in SUBSET ProductIds, priceOf \in priceTables :
            LET order == FindOneOutcome(loc[p].order,
                            ValidatorReply(FindOneProductIds(loc[p].order), known, priceOf))
            IN  IF ~order.ok
                THEN Finish(p, order) /\ UNCHANGED loc
                ELSE IF order.value.status = arg[p].status
                THEN Finish(p, order) /\ UNCHANGED loc
                ELSE /\ pc' = [pc EXCEPT ![p] = "changeStatus_update"]
                     /\ loc' = [loc EXCEPT ![p] = [order |-> order.value]]
                     /\ UNCHANGED res
    /\ UNCHANGED <<orders, writes, op, arg, sent>>

\* the update resets the payment with the status
ChangeStatusResetsPaid(order, status) ==
    [order EXCEPT !.status = status, !.paid = FALSE, !.paidAt = 0]

\* the update recomputes the total
ChangeStatusRecomputes(order, status) ==
    [order EXCEPT !.status = status, !.totalAmount = 0]

\* the update writes the order without its receipt
ChangeStatusDropsReceipt(order, status) ==
    [order EXCEPT !.status = status, !.OrderReceipt = <<>>]

\* lines 162-165: data: { status }
ChangeStatusData(order, status) == [order EXCEPT !.status = status]

\* the update refused when the status is no longer the one looked up
ChangeStatusUpdateIfUnchanged(p) ==
    /\ pc[p] = "changeStatus_update"
    /\ \/ /\ writes < MaxWrites
          /\ Exists(arg[p].id)
          /\ orders[arg[p].id].status = loc[p].order.status
          /\ orders' = [orders EXCEPT ![arg[p].id] = ChangeStatusData(@, arg[p].status)]
          /\ writes' = writes + 1
          /\ Finish(p, Ok(Scalars(orders'[arg[p].id])))
       \/ /\ Finish(p, Threw(Failure("PrismaError")))
          /\ UNCHANGED <<orders, writes>>
    /\ UNCHANGED <<op, arg, loc, sent>>

\* lines 162-165: this.order.update commits, or fails
ChangeStatusUpdate(p) ==
    /\ pc[p] = "changeStatus_update"
    /\ \/ /\ writes < MaxWrites
          /\ Exists(arg[p].id)
          /\ orders' = [orders EXCEPT ![arg[p].id] = ChangeStatusData(@, arg[p].status)]
          /\ writes' = writes + 1
          /\ Finish(p, Ok(Scalars(orders'[arg[p].id])))
       \/ /\ Finish(p, Threw(Failure("PrismaError")))
          /\ UNCHANGED <<orders, writes>>
    /\ UNCHANGED <<op, arg, loc, sent>>

----------------------------------------------------------------------------
(* Handlers: createPaymentSession *)

\* lines 171-178: the request to the payment gateway
PaymentSessionRequest(order) ==
    [orderId  |-> order.id,
     currency |-> "usd",
     items    |-> [i \in 1..Len(order.OrderItem) |->
                     [name     |-> order.OrderItem[i].name,
                      price    |-> order.OrderItem[i].price,
                      quantity |-> order.OrderItem[i].quantity]]]

\* the products of an order, named, as the caller of createPaymentSession has them
NamedProducts(order) ==
    ValidatorReply(FindOneProductIds(order), ProductIds, [x \in ProductIds |-> 1])

\* lines 168-178: the call, with an order of the store and its named items
CreatePaymentSessionStart(p, id) ==
    /\ pc[p] = "idle"
    /\ Exists(id)
    /\ pc' = [pc EXCEPT ![p] = "payment_session"]
    /\ op' = [op EXCEPT ![p] = "createPaymentSession"]
    /\ arg' = [arg EXCEPT ![p] = Decorate(FindFirst(id), NamedProducts(FindFirst(id)))]
    /\ loc' = [loc EXCEPT ![p] = [request |-> PaymentSessionRequest(arg'[p])]]
    /\ sent' = [sent EXCEPT ![p] = 1]
    /\ res' = [res EXCEPT ![p] = Nothing]
    /\ UNCHANGED <<orders, writes>>

PaymentSessions == {[url |-> "checkout_1"], [url |-> "checkout_2"]}

\* the order marked on the gateway's payload
CreatePaymentSessionReplyMarks(p) ==
    /\ pc[p] = "payment_session"
    /\ \/ /\ \E paymentSession \in PaymentSessions : Finish(p, Ok(paymentSession))
          /\ orders' = [orders EXCEPT ![arg[p].id].status = "PAID"]
       \/ /\ Finish(p, Threw(RpcException(Failure("RemoteError"))))
          /\ UNCHANGED orders
    /\ UNCHANGED <<writes, op, arg, loc, sent>>

\* lines 179-187: the gateway's payload, or its error as an RpcException
CreatePaymentSessionReply(p) ==
    /\ pc[p] = "payment_session"
    /\ \/ \E paymentSession \in PaymentSessions : Finish(p, Ok(paymentSession))
       \/ Finish(p, Threw(RpcException(Failure("RemoteError"))))
    /\ UNCHANGED <<orders, writes, op, arg, loc, sent>>

----------------------------------------------------------------------------
(* Handlers: paidOrder *)

Notifications ==
    {[stripePaymentId |-> "ch_1", receiptUrl |-> "receipt_1"],
     [stripePaymentId |-> "ch_2", receiptUrl |-> "receipt_2"]}

PaidOrderDtos ==
    {[orderId |-> id, stripePaymentId |-> n.stripePaymentId, receiptUrl |-> n.receiptUrl] :
        id \in OrderIds, n \in Notifications}

\* the update without its nested create
PaidDataNoReceipt(order, dto, date) ==
    [order EXCEPT !.status = "PAID",
                  !.paid = TRUE,
                  !.paidAt = date,
                  !.stripeChargeId = dto.stripePaymentId]

\* the receipt created with the payment reference as its URL
PaidDataWrongUrl(order, dto, date) ==
    [order EXCEPT !.status = "PAID",
                  !.paid = TRUE,
                  !.paidAt = date,
                  !.stripeChargeId = dto.stripePaymentId,
                  !.OrderReceipt = Append(@, [receiptUrl |-> dto.stripePaymentId])]

\* lines 196-209: the data of the update, with the receipt it creates
PaidData(order, dto, date) ==
    [order EXCEPT !.status = "PAID",
                  !.paid = TRUE,
                  !.paidAt = date,
                  !.stripeChargeId = dto.stripePaymentId,
                  !.OrderReceipt = Append(@, [receiptUrl |-> dto.receiptUrl])]

\* an order has at most one receipt: the store refuses a second one
ReceiptAllowed(order) == order.OrderReceipt = <<>>

\* the update applied again to an order that has its receipt
PaidOrderReapplies(p, dto) ==
    /\ pc[p] = "idle"
    /\ op' = [op EXCEPT ![p] = "paidOrder"]
    /\ arg' = [arg EXCEPT ![p] = dto]
    /\ loc' = [loc EXCEPT ![p] = Nothing]
    /\ sent' = [sent EXCEPT ![p] = 0]
    /\ \/ /\ writes < MaxWrites
          /\ Exists(dto.orderId)
          /\ \E date \in 1..MaxTime :
               orders' = [orders EXCEPT ![dto.orderId] = PaidData(@, dto, date)]
          /\ writes' = writes + 1
          /\ Finish(p, Ok(Scalars(orders'[dto.orderId])))
       \/ /\ Finish(p, Threw(Failure("PrismaError")))
          /\ UNCHANGED <<orders, writes>>

\* lines 190-213: one update with its nested create, which commits or fails
PaidOrder(p, dto) ==
    /\ pc[p] = "idle"
    /\ op' = [op EXCEPT ![p] = "paidOrder"]
    /\ arg' = [arg EXCEPT ![p] = dto]
    /\ loc' = [loc EXCEPT ![p] = Nothing]
    /\ sent' = [sent EXCEPT ![p] = 0]
    /\ \/ /\ writes < MaxWrites
          /\ Exists(dto.orderId)
          /\ ReceiptAllowed(orders[dto.orderId])
          /\ \E date \in 1..MaxTime :
               orders' = [orders EXCEPT ![dto.orderId] = PaidData(@, dto, date)]
          /\ writes' = writes + 1
          /\ Finish(p, Ok(Scalars(orders'[dto.orderId])))
       \/ /\ Finish(p, Threw(Failure("PrismaError")))
          /\ UNCHANGED <<orders, writes>>

\* the caller has the result; the invocation is over
Return(p) ==
    /\ pc[p] = "done"
    /\ pc' = [pc EXCEPT ![p] = "idle"]
    /\ op' = [op EXCEPT ![p] = "none"]
    /\ arg' = [arg EXCEPT ![p] = Nothing]
    /\ loc' = [loc EXCEPT ![p] = Nothing]
    /\ sent' = [sent EXCEPT ![p] = 0]
    /\ res' = [res EXCEPT ![p] = Nothing]
    /\ UNCHANGED <<orders, writes>>

----------------------------------------------------------------------------
(* Specifications *)

\* the service after construction, on an empty store
Init ==
    /\ orders = <<>>
    /\ writes = 0
    /\ pc = [p \in Procs |-> "idle"]
    /\ op = [p \in Procs |-> "none"]
    /\ arg = [p \in Procs |-> Nothing]
    /\ loc = [p \in Procs |-> Nothing]
    /\ sent = [p \in Procs |-> 0]
    /\ res = [p \in Procs |-> Nothing]

\* one invocation of create, over every CreateOrderDto within the bounds
NextCreate ==
    \/ \E dto \in CreateOrderDtos : CreateStart("p1", dto)
    \/ CreateValidated("p1", PriceTables)
    \/ CreateWrite("p1")

SpecCreate == Init /\ [][NextCreate]_vars

\* the orders the lifecycle is followed on
LifecycleDtos ==
    {[items |-> <<[productId |-> "A", quantity |-> 2, price |-> 1],
                  [productId |-> "B", quantity |-> 1, price |-> 1]>>]}

\* the catalog when the orders of the lifecycle are created
LifecyclePrices == {[x \in ProductIds |-> IF x = "A" THEN 10 ELSE 5]}

\* the catalog when the orders are looked up: as it was, and with other prices
LaterPrices == LifecyclePrices \cup {[x \in ProductIds |-> IF x = "A" THEN 11 ELSE 7]}

\* the listing the lifecycle is followed with
LifecyclePages == {[page |-> 1, limit |-> 2, status |-> Undefined]}

\* the clients: p1 calls any handler; p2 calls the handlers that write
Readers == {"p1"}

Next ==
    \/ \E p \in Readers :
          \/ \E dto \in LifecyclePages : FindAllCount(p, dto)
          \/ FindAllFetch(p)
          \/ \E id \in OrderIds : FindOneStart(p, id)
          \/ FindOneValidated(p, LaterPrices)
          \/ \E id \in OrderIds : CreatePaymentSessionStart(p, id)
          \/ CreatePaymentSessionReply(p)
    \/ \E p \in Procs :
          \/ \E dto \in LifecycleDtos : CreateStart(p, dto)
          \/ CreateValidated(p, LifecyclePrices)
          \/ CreateWrite(p)
          \/ \E dto \in ChangeOrderStatusDtos : ChangeStatusStart(p, dto)
          \/ ChangeStatusLookedUp(p, LaterPrices)
          \/ ChangeStatusUpdate(p)
          \/ \E dto \in PaidOrderDtos : PaidOrder(p, dto)
          \/ Return(p)

Spec == Init /\ [][Next]_vars

\* the collaborator p waits for answers: the validator or the gateway replies
\* or errors, the store commits, answers or fails
Answer(p) ==
    \/ CreateValidated(p, LifecyclePrices)
    \/ CreateWrite(p)
    \/ FindAllFetch(p)
    \/ FindOneValidated(p, LaterPrices)
    \/ ChangeStatusLookedUp(p, LaterPrices)
    \/ ChangeStatusUpdate(p)
    \/ CreatePaymentSessionReply(p)

\* p1 calls any handler, again and again, beside one call by p2 of a handler
\* that writes
NextLive ==
    \/ \E p \in Readers :
          \/ \E dto \in LifecyclePages : FindAllCount(p, dto)
          \/ FindAllFetch(p)
          \/ \E id \in OrderIds : FindOneStart(p, id)
          \/ FindOneValidated(p, LaterPrices)
          \/ \E id \in OrderIds : CreatePaymentSessionStart(p, id)
          \/ CreatePaymentSessionReply(p)
          \/ Return(p)
    \/ \E p \in Procs :
          \/ \E dto \in LifecycleDtos : CreateStart(p, dto)
          \/ CreateValidated(p, LifecyclePrices)
          \/ CreateWrite(p)
          \/ \E dto \in ChangeOrderStatusDtos : ChangeStatusStart(p, dto)
          \/ ChangeStatusLookedUp(p, LaterPrices)
          \/ ChangeStatusUpdate(p)
          \/ \E dto \in PaidOrderDtos : PaidOrder(p, dto)

\* the service with collaborators that answer every call in the end
SpecLive == Init /\ [][NextLive]_vars /\ \A p \in Procs : WF_vars(Answer(p))

\* a store of n orders created and moved to any statuses
StoreOf(statusOf) ==
    [i \in DOMAIN statusOf |->
        [NewOrder(i, CHOOSE dto \in LifecycleDtos : TRUE,
                  ValidatorReply(<<"A", "B">>, ProductIds,
                                 CHOOSE t \in LifecyclePrices : TRUE))
            EXCEPT !.status = statusOf[i]]]

\* the service on a store that holds up to MaxRows orders
InitPage ==
    /\ orders \in {StoreOf(st) : st \in UNION {[1..n -> Statuses] : n \in 0..MaxRows}}
    /\ writes = 0
    /\ pc = [p \in Procs |-> "idle"]
    /\ op = [p \in Procs |-> "none"]
    /\ arg = [p \in Procs |-> Nothing]
    /\ loc = [p \in Procs |-> Nothing]
    /\ sent = [p \in Procs |-> 0]
    /\ res = [p \in Procs |-> Nothing]

\* findAll over every OrderPaginationDto within the bounds, while one paid
\* notification arrives
NextPage ==
    \/ \E dto \in OrderPaginationDtos : FindAllCount("p1", dto)
    \/ FindAllFetch("p1")
    \/ Return("p1")
    \/ \E dto \in {d \in PaidOrderDtos : d.stripePaymentId = "ch_1"} : PaidOrder("p2", dto)

SpecPage == InitPage /\ [][NextPage]_vars

----------------------------------------------------------------------------
(* Claims *)

Ids(products) == {products[j].id : j \in 1..Len(products)}

\* the price the validator's reply gives for a product
ReplyPrice(products, id) == (CHOOSE r \in Range(products) : r.id = id).price

CreateSucceeded(p) == op[p] = "create" /\ pc[p] = "done" /\ res[p].ok

\* C1: a create that succeeds has persisted an order whose totalAmount is the
\* sum over the requested items of the validator's price times the quantity,
\* whose totalItems is the sum of the quantities, and whose items carry the
\* validator's price, the requested product and the requested quantity.
C1_CreateTotals ==
    \A p \in Procs :
        CreateSucceeded(p) =>
            LET items == arg[p].items
                products == loc[p].products
                order == orders[res[p].value.id]
            IN  /\ \A i \in 1..Len(items) : items[i].productId \in Ids(products)
                /\ order.totalAmount =
                      SumSeq([i \in 1..Len(items) |->
                                ReplyPrice(products, items[i].productId) * items[i].quantity])
                /\ order.totalItems = SumSeq([i \in 1..Len(items) |-> items[i].quantity])
                /\ Len(order.OrderItem) = Len(items)
                /\ \A i \in 1..Len(items) :
                      /\ order.OrderItem[i].price = ReplyPrice(products, items[i].productId)
                      /\ order.OrderItem[i].productId = items[i].productId
                      /\ order.OrderItem[i].quantity = items[i].quantity
                /\ res[p].value.totalAmount = order.totalAmount
                /\ res[p].value.totalItems = order.totalItems

\* a create has succeeded on a product requested twice, at a price that is not
\* the one the client sent
C1_Witness ==
    \E p \in Procs :
        /\ CreateSucceeded(p)
        /\ Len(arg[p].items) = 2
        /\ arg[p].items[1].productId = arg[p].items[2].productId
        /\ arg[p].items[1].quantity # arg[p].items[2].quantity
        /\ orders[res[p].value.id].OrderItem[1].price # arg[p].items[1].price

\* create holds a reply that lacks one of the requested products
Unresolved(p) ==
    /\ op[p] = "create"
    /\ "products" \in DOMAIN loc[p]
    /\ \E i \in 1..Len(arg[p].items) :
          arg[p].items[i].productId \notin Ids(loc[p].products)

\* C2: when the validator's reply lacks a requested product, create fails on
\* that reply, and the step leaves the orders, their items and the count of
\* store writes as they were.
C2_UnresolvedCreateWritesNothing ==
    [][\A p \in Procs :
          (pc[p] = "create_validate" /\ (Unresolved(p))') =>
              /\ pc'[p] = "done"
              /\ ~res'[p].ok
              /\ orders' = orders
              /\ writes' = writes]_vars

\* create has failed on a reply that has the first requested product and
\* lacks the second
C2_Witness ==
    \E p \in Procs :
        /\ Unresolved(p)
        /\ pc[p] = "done"
        /\ ~res[p].ok
        /\ Len(arg[p].items) = 2
        /\ arg[p].items[1].productId \in Ids(loc[p].products)
        /\ arg[p].items[2].productId \notin Ids(loc[p].products)

\* C3: in every state each order has paid = true exactly when it has a receipt.
C3_PaidIffReceipt ==
    \A id \in 1..Len(orders) : orders[id].paid <=> (orders[id].OrderReceipt # <<>>)

\* one order is paid with its receipt, another is not, and a paidOrder has
\* failed in the store
C3_Witness ==
    /\ \E id \in 1..Len(orders) : orders[id].paid /\ orders[id].OrderReceipt # <<>>
    /\ \E id \in 1..Len(orders) : ~orders[id].paid
    /\ \E p \in Procs : op[p] = "paidOrder" /\ pc[p] = "done" /\ ~res[p].ok

\* the step on which paidOrder of p commits
PaidOrderCommits(p) ==
    pc[p] = "idle" /\ pc'[p] = "done" /\ op'[p] = "paidOrder" /\ res'[p].ok

\* C4: the step on which a paidOrder succeeds leaves its order with status
\* PAID, paid = true, paidAt set, the payment reference recorded and one
\* receipt, with the given URL; no order is added and no other order changes.
C4_PaidOrderEffect ==
    [][\A p \in Procs :
          PaidOrderCommits(p) =>
              LET dto == arg'[p] IN
              /\ dto.orderId \in 1..Len(orders)
              /\ Len(orders') = Len(orders)
              /\ orders'[dto.orderId].status = "PAID"
              /\ orders'[dto.orderId].paid
              /\ orders'[dto.orderId].paidAt # 0
              /\ orders'[dto.orderId].stripeChargeId = dto.stripePaymentId
              /\ orders'[dto.orderId].OrderReceipt = <<[receiptUrl |-> dto.receiptUrl]>>
              /\ \A id \in 1..Len(orders) : id # dto.orderId => orders'[id] = orders[id]
              /\ res'[p].value.status = "PAID" /\ res'[p].value.paid]_vars

\* a paidOrder has succeeded on one of two orders
C4_Witness ==
    \E p \in Procs :
        /\ op[p] = "paidOrder" /\ pc[p] = "done" /\ res[p].ok
        /\ Len(orders) = 2
        /\ orders[arg[p].orderId].OrderReceipt = <<[receiptUrl |-> arg[p].receiptUrl]>>

\* C5: findOne called with an id no order has throws, on its store read, the
\* NOT_FOUND RpcException carrying the id, without a remote request.
C5_FindOneNotFound ==
    [][\A p \in Procs :
          (pc[p] = "idle" /\ op'[p] = "findOne" /\ arg'[p].id \notin 1..Len(orders)) =>
              /\ pc'[p] = "done"
              /\ res'[p] = [ok |-> FALSE,
                            error |-> [kind |-> "RpcException", status |-> 404,
                                       id |-> arg'[p].id]]
              /\ sent'[p] = 0]_vars

\* findOne has thrown NOT_FOUND on a store that holds an order
C5_Witness ==
    \E p \in Procs :
        /\ op[p] = "findOne" /\ pc[p] = "done" /\ ~res[p].ok
        /\ res[p].error.kind = "RpcException"
        /\ "status" \in DOMAIN res[p].error
        /\ Len(orders) >= 1

\* the order of a lookup with the names of its products
Named(order) ==
    [order EXCEPT !.OrderItem =
        [i \in 1..Len(order.OrderItem) |->
            [price     |-> order.OrderItem[i].price,
             productId |-> order.OrderItem[i].productId,
             quantity  |-> order.OrderItem[i].quantity,
             name      |-> "name_" \o order.OrderItem[i].productId]]]

\* changeStatus of p has read an order that has the target status already
SameStatusLookedUp(p) ==
    /\ op[p] = "changeStatus"
    /\ pc[p] = "findOne_validate"
    /\ loc[p].order.status = arg[p].status

\* C6: a changeStatus whose lookup read the target status ends on the reply
\* of the lookup, without a store write (the store and the count of writes
\* are unchanged), and when the lookup succeeds it returns the order as read
\* by the lookup, with the names of its products.
C6_SameStatusNoWrite ==
    [][\A p \in Procs :
          (SameStatusLookedUp(p) /\ pc'[p] # pc[p]) =>
              /\ pc'[p] = "done"
              /\ orders' = orders
              /\ writes' = writes
              /\ res'[p].ok => res'[p].value = Named(loc[p].order)]_vars

\* a changeStatus to the status the order has, other than the initial one,
\* has returned the order of the lookup
C6_Witness ==
    \E p \in Procs :
        /\ op[p] = "changeStatus" /\ pc[p] = "done" /\ res[p].ok
        /\ "OrderItem" \in DOMAIN res[p].value
        /\ res[p].value.status = arg[p].status
        /\ arg[p].status = "CANCELLED"
        /\ writes = 2

\* the step on which the update of changeStatus of p commits
ChangeStatusCommits(p) ==
    op[p] = "changeStatus" /\ pc[p] = "changeStatus_update" /\ pc'[p] = "done" /\ res'[p].ok

\* C7: the step on which the update of a changeStatus commits sets the status
\* of its order to the target and leaves every other field of that order, and
\* every other order, unchanged.
C7_ChangeStatusFrame ==
    [][\A p \in Procs :
          ChangeStatusCommits(p) =>
              LET id == arg[p].id IN
              /\ loc[p].order.status # arg[p].status
              /\ id \in 1..Len(orders)
              /\ Len(orders') = Len(orders)
              /\ orders'[id].status = arg[p].status
              /\ orders'[id].id = orders[id].id
              /\ orders'[id].totalAmount = orders[id].totalAmount
              /\ orders'[id].totalItems = orders[id].totalItems
              /\ orders'[id].paid = orders[id].paid
              /\ orders'[id].paidAt = orders[id].paidAt
              /\ orders'[id].stripeChargeId = orders[id].stripeChargeId
              /\ orders'[id].OrderItem = orders[id].OrderItem
              /\ orders'[id].OrderReceipt = orders[id].OrderReceipt
              /\ \A other \in 1..Len(orders) : other # id => orders'[other] = orders[other]
              /\ res'[p].value.status = arg[p].status]_vars

\* a changeStatus has moved a paid order, which keeps its payment and receipt
C7_Witness ==
    \E p \in Procs :
        /\ op[p] = "changeStatus" /\ pc[p] = "done" /\ res[p].ok
        /\ "OrderItem" \notin DOMAIN res[p].value
        /\ orders[arg[p].id].status = arg[p].status
        /\ orders[arg[p].id].status # "PAID"
        /\ orders[arg[p].id].paid
        /\ orders[arg[p].id].OrderReceipt # <<>>

\* the number of orders of the store under a status filter
NumMatching(status) ==
    Cardinality({i \in 1..Len(orders) : status = Undefined \/ orders[i].status = status})

\* k is the ceiling of n / limit
IsCeil(k, n, limit) == k * limit >= n /\ (k - 1) * limit < n

\* the length of page `page` of n rows
PageLength(n, page, limit) ==
    LET rest == n - (page - 1) * limit IN
    IF rest <= 0 THEN 0 ELSE IF rest <= limit THEN rest ELSE limit

FindAllCounts(p) == pc[p] = "idle" /\ pc'[p] = "findAll_fetch"

FindAllReturns(p) == pc[p] = "findAll_fetch" /\ pc'[p] = "done"

\* C8 (as amended): findAll counts the orders that match the filter at its
\* count query and returns meta.lastPage = ceil(n1 / limit) for that count n1;
\* its data has length min(limit, max(0, n2 - (page-1)*limit)) for the number
\* n2 of orders that match at its fetch query, holds only matching orders of
\* the store, in store order, and is empty when n1 = n2 and page exceeds
\* lastPage; no error is raised.
C8_FindAllPage ==
    [][\A p \in Procs :
          /\ FindAllCounts(p) => loc'[p].totalPages = NumMatching(arg'[p].status)
          /\ FindAllReturns(p) =>
               LET dto == arg[p]
                   n1 == loc[p].totalPages
                   n2 == NumMatching(dto.status)
                   data == res'[p].value.data
                   meta == res'[p].value.meta
               IN  /\ res'[p].ok
                   /\ meta.page = dto.page
                   /\ IsCeil(meta.lastPage, n1, dto.limit)
                   /\ Len(data) = PageLength(n2, dto.page, dto.limit)
                   /\ \A i \in 1..Len(data) :
                         /\ data[i].id \in 1..Len(orders)
                         /\ orders[data[i].id].status = data[i].status
                         /\ dto.status = Undefined \/ data[i].status = dto.status
                         /\ i > 1 => data[i - 1].id < data[i].id
                   /\ (n1 = n2 /\ dto.page > meta.lastPage) => data = <<>>]_vars

\* findAll has returned the empty page beyond the last of two pages, under a
\* status filter that one order of the store does not match
C8_Witness ==
    \E p \in Procs :
        /\ op[p] = "findAll" /\ pc[p] = "done"
        /\ arg[p].status # Undefined
        /\ arg[p].page > res[p].value.meta.lastPage
        /\ res[p].value.meta.lastPage = 2
        /\ res[p].value.data = <<>>
        /\ NumMatching(arg[p].status) = 2
        /\ Len(orders) = 3

\* C8 (as claimed): with n the number of orders that match the filter when
\* findAll returns, meta.lastPage = ceil(n / limit), data has length
\* min(limit, max(0, n - (page-1)*limit)), and data is empty when page
\* exceeds lastPage.
C8_AsClaimed ==
    [][\A p \in Procs :
          FindAllReturns(p) =>
               LET dto == arg[p]
                   n == NumMatching(dto.status)
                   data == res'[p].value.data
                   meta == res'[p].value.meta
               IN  /\ IsCeil(meta.lastPage, n, dto.limit)
                   /\ Len(data) = PageLength(n, dto.page, dto.limit)
                   /\ dto.page > meta.lastPage => data = <<>>]_vars

\* C9: findAll reports meta.totalPages as the number of pages, the value of
\* meta.lastPage.
C9_TotalPagesIsLastPage ==
    \A p \in Procs :
        (op[p] = "findAll" /\ pc[p] = "done" /\ res[p].ok) =>
            res[p].value.meta.totalPages = res[p].value.meta.lastPage

\* an order's total is the sum over its items of price times quantity, and
\* its count of items the sum of the quantities
TotalsConsistent(order) ==
    /\ order.totalAmount =
          SumSeq([i \in 1..Len(order.OrderItem) |->
                    order.OrderItem[i].price * order.OrderItem[i].quantity])
    /\ order.totalItems =
          SumSeq([i \in 1..Len(order.OrderItem) |-> order.OrderItem[i].quantity])

\* C10: no step changes the items (their price, product and quantity), the
\* totalAmount or the totalItems of an order of the store, no order leaves
\* the store, and after every step each order's totals are consistent with
\* its items.
C10_PricesAndTotalsImmutable ==
    [][/\ Len(orders') >= Len(orders)
       /\ \A id \in 1..Len(orders) :
             /\ orders'[id].OrderItem = orders[id].OrderItem
             /\ orders'[id].totalAmount = orders[id].totalAmount
             /\ orders'[id].totalItems = orders[id].totalItems
       /\ \A id \in 1..Len(orders') : TotalsConsistent(orders'[id])]_vars

\* an order that was paid and then moved to another status has the totals of
\* its creation, while a findOne of it has returned
C10_Witness ==
    /\ Len(orders) = 1
    /\ orders[1].paid
    /\ orders[1].status = "CANCELLED"
    /\ orders[1].totalAmount = 25
    /\ orders[1].totalItems = 3
    /\ \E p \in Procs : op[p] = "findOne" /\ pc[p] = "done" /\ res[p].ok

\* C11: in every state an order whose status is PAID has been finalized by
\* paidOrder: it has paid = true and a receipt.
C11_PaidStatusOnlyByFinalization ==
    \A id \in 1..Len(orders) :
        orders[id].status = "PAID" =>
            orders[id].paid /\ orders[id].OrderReceipt # <<>>

\* C12: no step removes an order, gives an order a second receipt, or
\* replaces or removes a receipt an order has; so every order has at most one
\* receipt, created by the first paidOrder that commits for it.
C12_OneReceipt ==
    [][/\ Len(orders') >= Len(orders)
       /\ \A id \in 1..Len(orders) :
            /\ Len(orders'[id].OrderReceipt) <= 1
            /\ orders[id].OrderReceipt # <<>> =>
                  orders'[id].OrderReceipt = orders[id].OrderReceipt]_vars

\* two paidOrder notifications for one order have been handled: one created
\* the receipt, the other one was refused
C12_Witness ==
    \E p, q \in Procs :
        /\ p # q
        /\ op[p] = "paidOrder" /\ pc[p] = "done" /\ res[p].ok
        /\ op[q] = "paidOrder" /\ pc[q] = "done" /\ ~res[q].ok
        /\ arg[p].orderId = arg[q].orderId
        /\ Exists(arg[p].orderId)
        /\ Len(orders[arg[p].orderId].OrderReceipt) = 1

\* the notification dto has been applied to the order it names
Finalized(dto) ==
    /\ Exists(dto.orderId)
    /\ orders[dto.orderId].paid
    /\ orders[dto.orderId].stripeChargeId = dto.stripePaymentId
    /\ orders[dto.orderId].OrderReceipt = <<[receiptUrl |-> dto.receiptUrl]>>

\* C13: a paidOrder with the notification that finalized its order already
\* leaves the store as it is: the status, paid, paidAt, the payment reference
\* and the receipt of the order are those of the first application.
C13_RedeliveryKeepsOrder ==
    [][\A p \in Procs :
          (pc[p] = "idle" /\ op'[p] = "paidOrder" /\ Finalized(arg'[p])) =>
              /\ orders' = orders
              /\ writes' = writes]_vars

\* a notification was delivered again to the order it had finalized
C13_Witness ==
    \E p \in Procs :
        /\ op[p] = "paidOrder" /\ pc[p] = "done" /\ ~res[p].ok
        /\ Finalized(arg[p])
        /\ orders[arg[p].orderId].status = "PAID"
        /\ orders[arg[p].orderId].paidAt > 0

\* the causes create can fail with: the validator's error, the TypeError on a
\* product missing from the reply, the store's error
CreateCauses == {Failure("RemoteError"), Failure("TypeError"), Failure("PrismaError")}

CreateFailed(p) == op[p] = "create" /\ pc[p] = "done" /\ ~res[p].ok

\* C14: a create that fails, on the validator's error, on a product missing
\* from the reply or on the store's error, throws an RpcException that wraps
\* the cause, on a step that leaves the store as it is; the single create of
\* this specification that has failed has left the store empty.
C14_CreateFailsUniformly ==
    /\ [](\A p \in Procs : CreateFailed(p) => orders = <<>> /\ writes = 0)
    /\ [][\A p \in Procs :
             (pc[p] # "done" /\ (CreateFailed(p))') =>
                 /\ res'[p].error = RpcException(res'[p].error.cause)
                 /\ res'[p].error.cause \in CreateCauses
                 /\ orders' = orders
                 /\ writes' = writes]_vars

\* create has failed in the store, after a reply that priced every item
C14_Witness ==
    \E p \in Procs :
        /\ CreateFailed(p)
        /\ res[p].error = RpcException(Failure("PrismaError"))
        /\ CreateResolves(arg[p], loc[p].products)
        /\ Len(arg[p].items) = 2
        /\ orders = <<>>

\* the errors the lookup of changeStatus ends with
LookupFailures(id) == {NotFound(id), Failure("RemoteError"), Failure("TypeError")}

\* C15: a changeStatus whose lookup fails ends there and writes nothing. Its
\* first step leaves the store as it is and, without the order, ends with
\* NOT_FOUND; the step on the validator's reply leaves the store as it is and
\* goes on to the update only with the order found and every product of it
\* named by the reply, otherwise the handler is over; a changeStatus that ends
\* with an error of its lookup ends on a step that changes no order.
C15_FailedLookupNoWrite ==
    [][\A p \in Procs :
          /\ (pc[p] = "idle" /\ op'[p] = "changeStatus") =>
                /\ orders' = orders /\ writes' = writes
                /\ ~Exists(arg'[p].id) =>
                      pc'[p] = "done" /\ res'[p] = Threw(NotFound(arg'[p].id))
          /\ (op[p] = "changeStatus" /\ pc[p] = "findOne_validate" /\ pc'[p] # pc[p]) =>
                /\ orders' = orders /\ writes' = writes
                /\ pc'[p] \in {"done", "changeStatus_update"}
                /\ pc'[p] = "changeStatus_update" =>
                      /\ Exists(arg[p].id)
                      /\ loc'[p].order = Named(loc[p].order)
          /\ (op'[p] = "changeStatus" /\ pc[p] # "done" /\ pc'[p] = "done"
                /\ ~res'[p].ok /\ res'[p].error \in LookupFailures(arg'[p].id)) =>
                orders' = orders /\ writes' = writes]_vars

\* a changeStatus to another status than its order has ended on a reply that
\* lacks a product of the order, and the order has its status
C15_Witness ==
    \E p \in Procs :
        /\ op[p] = "changeStatus" /\ pc[p] = "done"
        /\ res[p] = Threw(Failure("TypeError"))
        /\ Exists(arg[p].id)
        /\ orders[arg[p].id].status = "PENDING"
        /\ arg[p].status = "CANCELLED"
        /\ writes = 1

\* C16: no step of createPaymentSession changes the store: the step that
\* sends the request and the step on the gateway's answer leave the orders
\* and the count of writes as they are; the answer ends the handler, with the
\* gateway's payload as the result, or with the gateway's error wrapped in an
\* RpcException as the error thrown.
C16_PaymentSessionFrame ==
    [][\A p \in Procs :
          /\ (pc[p] = "idle" /\ op'[p] = "createPaymentSession") =>
                /\ orders' = orders /\ writes' = writes
                /\ pc'[p] = "payment_session"
          /\ (pc[p] = "payment_session" /\ pc'[p] # pc[p]) =>
                /\ orders' = orders /\ writes' = writes
                /\ pc'[p] = "done"
                /\ res'[p].ok => res'[p].value \in PaymentSessions
                /\ ~res'[p].ok =>
                      res'[p].error = RpcException(Failure("RemoteError"))]_vars

\* a payment session was refused by the gateway for an order of the store,
\* which is as it was created
C16_Witness ==
    \E p \in Procs :
        /\ op[p] = "createPaymentSession" /\ pc[p] = "done"
        /\ res[p] = Threw(RpcException(Failure("RemoteError")))
        /\ Exists(arg[p].id)
        /\ orders[arg[p].id].status = "PENDING"
        /\ ~orders[arg[p].id].paid
        /\ loc[p].request.currency = "usd"

\* C17: the writes of changeStatus and paidOrder to one order are not
\* coordinated and the last one to commit gives the status. An update that a
\* changeStatus holds ready can commit whatever has been written to its order
\* since the lookup, and a paidOrder can commit on an unpaid order whatever
\* the other handler holds ready; the step on which either commits leaves the
\* status of its order at what it wrote; and no other step changes a status.
C17_LastWriterWins ==
    /\ [](\A p \in Procs :
            /\ (pc[p] = "changeStatus_update" /\ writes < MaxWrites) =>
                  ENABLED (ChangeStatusUpdate(p) /\ res'[p].ok)
            /\ (pc[p] = "idle" /\ writes < MaxWrites) =>
                  \A dto \in PaidOrderDtos :
                      (Exists(dto.orderId) /\ ReceiptAllowed(orders[dto.orderId])) =>
                          ENABLED (PaidOrder(p, dto) /\ res'[p].ok))
    /\ [][/\ \A p \in Procs :
               /\ ChangeStatusCommits(p) =>
                     orders'[arg[p].id].status = arg[p].status
               /\ PaidOrderCommits(p) =>
                     orders'[arg'[p].orderId].status = "PAID"
          /\ \A id \in 1..Len(orders) :
               orders'[id].status # orders[id].status =>
                   \E p \in Procs :
                       \/ ChangeStatusCommits(p) /\ arg[p].id = id
                       \/ PaidOrderCommits(p) /\ arg'[p].orderId = id]_vars

\* two calls of changeStatus looked up the same PENDING order, one to make it
\* PAID and one to make it CANCELLED; both updates committed, CANCELLED last
C17_Witness ==
    \E p, q \in Procs :
        /\ p # q
        /\ op[p] = "changeStatus" /\ pc[p] = "done" /\ res[p].ok
        /\ op[q] = "changeStatus" /\ pc[q] = "done" /\ res[q].ok
        /\ arg[p].id = arg[q].id
        /\ loc[p].order.status = "PENDING" /\ loc[q].order.status = "PENDING"
        /\ arg[p].status = "PAID" /\ res[p].value.status = "PAID"
        /\ arg[q].status = "CANCELLED" /\ res[q].value.status = "CANCELLED"
        /\ orders[arg[q].id].status = "CANCELLED"

\* the positions at which a handler waits for the reply of a remote call
RemoteWaits == {"create_validate", "findOne_validate", "payment_session"}

\* every handler can be called by q
CanStart(q) ==
    /\ \A dto \in LifecycleDtos : ENABLED CreateStart(q, dto)
    /\ \A dto \in LifecyclePages : ENABLED FindAllCount(q, dto)
    /\ \A id \in OrderIds : ENABLED FindOneStart(q, id)
    /\ \A dto \in ChangeOrderStatusDtos : ENABLED ChangeStatusStart(q, dto)
    /\ \A id \in 1..Len(orders) : ENABLED CreatePaymentSessionStart(q, id)
    /\ \A dto \in PaidOrderDtos : ENABLED PaidOrder(q, dto)

\* the handler q is in can take its next step, and its write can commit
CanGoOn(q) ==
    /\ pc[q] = "create_validate" => ENABLED CreateValidated(q, LifecyclePrices)
    /\ pc[q] = "create_write" => ENABLED CreateWrite(q)
    /\ (pc[q] = "create_write" /\ writes < MaxWrites) =>
          ENABLED (CreateWrite(q) /\ res'[q].ok)
    /\ pc[q] = "findAll_fetch" => ENABLED FindAllFetch(q)
    /\ (pc[q] = "findOne_validate" /\ op[q] = "findOne") =>
          ENABLED FindOneValidated(q, LaterPrices)
    /\ (pc[q] = "findOne_validate" /\ op[q] = "changeStatus") =>
          ENABLED ChangeStatusLookedUp(q, LaterPrices)
    /\ pc[q] = "changeStatus_update" => ENABLED ChangeStatusUpdate(q)
    /\ pc[q] = "payment_session" => ENABLED CreatePaymentSessionReply(q)
    /\ pc[q] = "done" => ENABLED Return(q)

\* C18: in every state in which a handler waits for the reply of a remote
\* call, every other client that is idle can call any handler, for the order
\* the waiting handler works on or for another, and every other handler under
\* way can take its next step: nothing is held across the remote call.
C18_RemoteWaitBlocksNobody ==
    \A p \in Procs :
        pc[p] \in RemoteWaits =>
            \A q \in Procs \ {p} :
                /\ pc[q] = "idle" => CanStart(q)
                /\ CanGoOn(q)

\* a findOne read an unpaid order and still waits for the validator; since
\* then a paidOrder for that order was called, committed and returned
C18_Witness ==
    \E p, q \in Procs :
        /\ p # q
        /\ op[p] = "findOne" /\ pc[p] = "findOne_validate"
        /\ ~loc[p].order.paid
        /\ op[q] = "paidOrder" /\ pc[q] = "done" /\ res[q].ok
        /\ arg[q].orderId = arg[p].id
        /\ orders[arg[p].id].paid

\* C19: a handler sends at most one remote request per invocation, findAll
\* and paidOrder none; and with collaborators that answer every call in the
\* end, a handler that has been called ends, with a result or an error.
C19_OneRequestAndCompletion ==
    /\ [](\A p \in Procs :
            /\ sent[p] <= 1
            /\ op[p] \in {"findAll", "paidOrder", "none"} => sent[p] = 0)
    /\ \A p \in Procs : (pc[p] \notin {"idle", "done"}) ~> (pc[p] = "done")

\* a changeStatus has gone through its lookup and its update and ended, with
\* the one request of its lookup sent, beside a paidOrder that sent none
C19_Witness ==
    \E p, q \in Procs :
        /\ op[p] = "changeStatus" /\ pc[p] = "done" /\ res[p].ok
        /\ sent[p] = 1
        /\ orders[arg[p].id].status = arg[p].status
        /\ loc[p].order.status # arg[p].status
        /\ op[q] = "paidOrder" /\ pc[q] = "done" /\ sent[q] = 0

\* C20 as claimed: in every state an order with paid = true has status PAID.
C20_PaidImpliesStatusPaid ==
    \A id \in 1..Len(orders) : orders[id].paid => orders[id].status = "PAID"

\* C20 (as amended): paid is set by the step on which a paidOrder commits for
\* the order, which leaves the status PAID, and is never reset; the status of
\* a paid order leaves PAID only on the step on which the update of a
\* changeStatus with another target commits for that order.
C20_PaidKept ==
    [][\A id \in 1..Len(orders) :
          /\ orders[id].paid => orders'[id].paid
          /\ (~orders[id].paid /\ orders'[id].paid) =>
                /\ orders'[id].status = "PAID"
                /\ \E p \in Procs : PaidOrderCommits(p) /\ arg'[p].orderId = id
          /\ (orders[id].paid /\ orders[id].status = "PAID"
                /\ orders'[id].status # "PAID") =>
                \E p \in Procs :
                    /\ ChangeStatusCommits(p)
                    /\ arg[p].id = id
                    /\ arg[p].status = orders'[id].status]_vars

\* a changeStatus looked its order up before the order was paid and committed
\* CANCELLED after: the order is paid, with its receipt, and CANCELLED
C20_Witness ==
    \E p \in Procs :
        /\ op[p] = "changeStatus" /\ pc[p] = "done" /\ res[p].ok
        /\ ~loc[p].order.paid
        /\ arg[p].status = "CANCELLED"
        /\ orders[arg[p].id].paid
        /\ orders[arg[p].id].status = "CANCELLED"
        /\ Len(orders[arg[p].id].OrderReceipt) = 1

====
